---- MODULE Spec2Model ----
(***************************************************************************)
(* Model of the token diff of grammarscan-live:                            *)
(* getDiffSegments (src/components/Sidebar.tsx), the positional walk that  *)
(* turns (original, corrected) into two lists of keyed, styled segments.   *)
(* A string is a sequence of one-character strings; a token is a           *)
(* non-empty such sequence.                                                *)
(***************************************************************************)
EXTENDS Integers, Sequences, FiniteSets, TLC

\* ---------------------------------------------------------------- bounds
MaxLen == 3

\* The characters the inputs are drawn from: two word characters and two
\* different whitespace characters (both are matched by the regex class \s).
Chars == {"a", "b", " ", "\n"}

WhiteSpace == {" ", "\n"}

Strings == UNION {[1..n -> Chars] : n \in 0..MaxLen}

\* The value of an array read past the end (wordsO[i] with i >= length).
Undefined == <<"undefined">>

\* ------------------------------------------------------------- tokenizer
\* /\s+/ tried at 0-based position q of S: the end of the greedy match, or
\* -1 when S[q] is not whitespace.
RECURSIVE SpaceRunEnd(_, _)
SpaceRunEnd(S, e) ==
  IF e < Len(S) /\ S[e + 1] \in WhiteSpace THEN SpaceRunEnd(S, e + 1) ELSE e

MatchSeparator(S, q) ==
  IF q < Len(S) /\ S[q + 1] \in WhiteSpace THEN SpaceRunEnd(S, q + 1) ELSE -1

\* String.prototype.split with the capturing separator /(\s+)/: p is the end
\* of the last match, q the position tried next; each match contributes the
\* piece before it and its capture, the rest of the string is the last piece.
RECURSIVE SplitFrom(_, _, _, _)
SplitFrom(S, p, q, acc) ==
  IF q >= Len(S) THEN Append(acc, SubSeq(S, p + 1, Len(S)))
  ELSE LET e == MatchSeparator(S, q) IN
       IF e = -1 \/ e = p THEN SplitFrom(S, p, q + 1, acc)
       ELSE SplitFrom(S, e, e,
                      acc \o <<SubSeq(S, p + 1, q), SubSeq(S, q + 1, e)>>)

\* split(/\s+/), the separator without its capturing group: the whitespace
\* runs are not returned.
RECURSIVE SplitFromNoCapture(_, _, _, _)
SplitFromNoCapture(S, p, q, acc) ==
  IF q >= Len(S) THEN Append(acc, SubSeq(S, p + 1, Len(S)))
  ELSE LET e == MatchSeparator(S, q) IN
       IF e = -1 \/ e = p THEN SplitFromNoCapture(S, p, q + 1, acc)
       ELSE SplitFromNoCapture(S, e, e, Append(acc, SubSeq(S, p + 1, q)))

SplitNoCapture(S) == SplitFromNoCapture(S, 0, 0, <<>>)

Split(S) == SplitFrom(S, 0, 0, <<>>)

\* Boolean(piece): the empty string is falsy.
Boolean(x) == x # Undefined /\ x # <<>>

Tokenize(S) == SelectSeq(Split(S), Boolean)

\* --------------------------------------------------------------- helpers
\* String.prototype.trim
RECURSIVE Trim(_)
Trim(s) ==
  IF s = <<>> THEN s
  ELSE IF Head(s) \in WhiteSpace THEN Trim(Tail(s))
  ELSE IF s[Len(s)] \in WhiteSpace THEN Trim(SubSeq(s, 1, Len(s) - 1))
  ELSE s

\* o?.trim()
OptTrim(x) == IF x = Undefined THEN Undefined ELSE Trim(x)

\* /^\s+$/.test(x)
IsSpaceRun(x) == Len(x) > 0 /\ \A k \in 1..Len(x) : x[k] \in WhiteSpace

\* words[k] with a 0-based index
At(words, k) == IF k < Len(words) THEN words[k + 1] ELSE Undefined

\* o === c restricted to words
IsMatchWordsOnly(o, c) == o = c /\ ~IsSpaceRun(o)

\* o?.trim() === c?.trim()
IsMatchTrimmed(o, c) == OptTrim(o) = OptTrim(c)

\* o === c
IsMatch(o, c) == o = c

\* The span elements: key, first class of className, text.
MatchNode(o, i, j) ==
  [tag |-> "match", key |-> "match-" \o ToString(i) \o "-" \o ToString(j),
   cls |-> "text-slate-400", text |-> o]

OrigErrNode(o, i) ==
  [tag |-> "orig-err", key |-> "orig-err-" \o ToString(i),
   cls |-> "text-red-400/80", text |-> o]

\* a fix keyed like the error it replaces
CorrFixNodeOrigKey(c, j) ==
  [tag |-> "corr-fix", key |-> "orig-err-" \o ToString(j),
   cls |-> "text-[#00f5b4]", text |-> c]

CorrFixNode(c, j) ==
  [tag |-> "corr-fix", key |-> "corr-fix-" \o ToString(j),
   cls |-> "text-[#00f5b4]", text |-> c]

OrigDelNode(o, i) ==
  [tag |-> "orig-del", key |-> "orig-del-" \o ToString(i),
   cls |-> "text-red-400/80", text |-> o]

\* an addition keyed and tagged as a fix
CorrAddNodeAsFix(c, j) ==
  [tag |-> "corr-fix", key |-> "corr-fix-" \o ToString(j),
   cls |-> "text-[#00f5b4]", text |-> c]

CorrAddNode(c, j) ==
  [tag |-> "corr-add", key |-> "corr-add-" \o ToString(j),
   cls |-> "text-[#00f5b4]", text |-> c]

\* a whitespace segment keyed without its index
WsONodeNoIndex(o, i) ==
  [tag |-> "ws-o", key |-> "ws-o", cls |-> "", text |-> o]

WsONode(o, i) ==
  [tag |-> "ws-o", key |-> "ws-o-" \o ToString(i), cls |-> "", text |-> o]

WsCNode(c, j) ==
  [tag |-> "ws-c", key |-> "ws-c-" \o ToString(j), cls |-> "", text |-> c]

\* ----------------------------------------------------------------- state
VARIABLES
  original, corrected,                 \* the two arguments
  wordsO, wordsC,                      \* their token arrays
  i, j,                                \* the two cursors
  originalSegments, correctedSegments, \* the two output lists
  ops,                                 \* the branch taken by each iteration
  pc                                   \* "start", "loop" or "done"

\* The state of App (src/unnamed/part_000) and of the one call of analyzeText
\* it can have in flight.
VARIABLES
  content,                             \* the editor text
  analysis,                            \* the AnalysisResponse shown, or Null
  isLoading,
  paraphraseStyle,
  request,                             \* the call in flight, or NoRequest
  lastEvent                            \* the last handler of the editor, the
                                       \* requests, the style or the toolbar

\* The rest of App's state (src/unnamed/part_000 lines 26-46), the browser
\* state its handlers write, and one history variable.
VARIABLES
  user,                                \* Null until a login succeeds
  isAuthModalOpen,
  isAuthLoading,                       \* a signup request is in flight
  isHistoryOpen,
  historyItems,                        \* the entries the history panel lists
  localStorage,                        \* the entries saved under the app's key
  now,                                 \* Date.now()
  selectedMode,
  isStyleMenuOpen,
  exported,                            \* the last text handed to the browser
  correctedFrom                        \* the text whose correction is shown

diffVars == <<original, corrected, wordsO, wordsC, i, j,
              originalSegments, correctedSegments, ops, pc>>

appVars == <<content, analysis, isLoading, paraphraseStyle, request, lastEvent>>

authVars == <<user, isAuthModalOpen, isAuthLoading>>

historyVars == <<isHistoryOpen, historyItems, localStorage, now>>

uiVars == <<authVars, historyVars, selectedMode, isStyleMenuOpen, exported,
            correctedFrom>>

vars == <<diffVars, appVars, uiVars>>

\* null
Null == [isNull |-> TRUE]

NoRequest == [stage |-> "none"]

\* lines 32-39: the state App starts in
AppStart ==
  /\ content = <<>>
  /\ analysis = Null
  /\ isLoading = FALSE
  /\ paraphraseStyle = "normal"
  /\ request = NoRequest
  /\ lastEvent = "mount"

\* no text exported yet
NoExport == [kind |-> "none"]

\* no text has been corrected
NoText == <<"none">>

\* lines 26-46: the rest of the state App starts in, with nothing saved
UiStart ==
  /\ user = Null
  /\ isAuthModalOpen = FALSE
  /\ isAuthLoading = FALSE
  /\ isHistoryOpen = FALSE
  /\ historyItems = <<>>
  /\ localStorage = <<>>
  /\ now = 0
  /\ selectedMode = "Correction"
  /\ isStyleMenuOpen = FALSE
  /\ exported = NoExport
  /\ correctedFrom = NoText

Init ==
  /\ original \in Strings
  /\ corrected \in Strings
  /\ wordsO = <<>>
  /\ wordsC = <<>>
  /\ i = 0
  /\ j = 0
  /\ originalSegments = <<>>
  /\ correctedSegments = <<>>
  /\ ops = <<>>
  /\ pc = "start"
  /\ AppStart
  /\ UiStart

\* lines 16-21
Enter ==
  /\ pc = "start"
  /\ wordsO' = Tokenize(original)
  /\ wordsC' = Tokenize(corrected)
  /\ i' = 0
  /\ j' = 0
  /\ originalSegments' = <<>>
  /\ correctedSegments' = <<>>
  /\ pc' = "loop"
  /\ UNCHANGED <<original, corrected, ops>>
  /\ UNCHANGED <<appVars, uiVars>>

\* i < wordsO.length && j < wordsC.length
LoopCondAnd == i < Len(wordsO) /\ j < Len(wordsC)

LoopCond == i < Len(wordsO) \/ j < Len(wordsC)

o == At(wordsO, i)
c == At(wordsC, j)
oTrim == OptTrim(o)
cTrim == OptTrim(c)

\* line 28: o === c
IsExactMatch == IsMatch(o, c)

\* o && c, the untrimmed tokens
IsSubstitutionUntrimmed == Boolean(o) /\ Boolean(c)

\* line 42: oTrim && cTrim
IsSubstitution == Boolean(oTrim) /\ Boolean(cTrim)

\* o, the untrimmed token
IsDeletionUntrimmed == Boolean(o)

\* line 51: oTrim
IsDeletion == Boolean(oTrim)

\* line 57: cTrim
IsAddition == Boolean(cTrim)

\* One entry of ops: the branch an iteration took, the cursors and the two
\* tokens it read.  Match and Substitute consume both tokens, Delete the
\* original one, Insert the corrected one.
Op(kind) == [op |-> kind, i |-> i, j |-> j, o |-> o, c |-> c]

\* Case 1: exact match
StepMatch ==
  /\ pc = "loop" /\ LoopCond
  /\ IsExactMatch
  /\ IF o # Undefined
       THEN /\ originalSegments' = Append(originalSegments, MatchNode(o, i, j))
            /\ correctedSegments' = Append(correctedSegments, MatchNode(o, i, j))
            /\ ops' = Append(ops, Op("Match"))
       ELSE UNCHANGED <<originalSegments, correctedSegments, ops>>
  /\ i' = i + 1
  /\ j' = j + 1
  /\ UNCHANGED <<original, corrected, wordsO, wordsC, pc>>
  /\ UNCHANGED <<appVars, uiVars>>

\* Case 2, substitution
StepSubstitute ==
  /\ pc = "loop" /\ LoopCond
  /\ ~IsExactMatch
  /\ IsSubstitution
  /\ originalSegments' = Append(originalSegments, OrigErrNode(o, i))
  /\ correctedSegments' = Append(correctedSegments, CorrFixNode(c, j))
  /\ ops' = Append(ops, Op("Substitute"))
  /\ i' = i + 1
  /\ j' = j + 1
  /\ UNCHANGED <<original, corrected, wordsO, wordsC, pc>>
  /\ UNCHANGED <<appVars, uiVars>>

\* a deletion that advances both cursors
StepDeleteBoth ==
  /\ pc = "loop" /\ LoopCond
  /\ ~IsExactMatch
  /\ ~IsSubstitution
  /\ IsDeletion
  /\ originalSegments' = Append(originalSegments, OrigDelNode(o, i))
  /\ ops' = Append(ops, Op("Delete"))
  /\ i' = i + 1
  /\ j' = j + 1
  /\ UNCHANGED <<original, corrected, wordsO, wordsC, correctedSegments, pc>>
  /\ UNCHANGED <<appVars, uiVars>>

\* Case 2, deletion from original
StepDelete ==
  /\ pc = "loop" /\ LoopCond
  /\ ~IsExactMatch
  /\ ~IsSubstitution
  /\ IsDeletion
  /\ originalSegments' = Append(originalSegments, OrigDelNode(o, i))
  /\ ops' = Append(ops, Op("Delete"))
  /\ i' = i + 1
  /\ UNCHANGED <<original, corrected, wordsO, wordsC, j, correctedSegments, pc>>
  /\ UNCHANGED <<appVars, uiVars>>

\* an addition that advances both cursors
StepInsertBoth ==
  /\ pc = "loop" /\ LoopCond
  /\ ~IsExactMatch
  /\ ~IsSubstitution
  /\ ~IsDeletion
  /\ IsAddition
  /\ correctedSegments' = Append(correctedSegments, CorrAddNode(c, j))
  /\ ops' = Append(ops, Op("Insert"))
  /\ i' = i + 1
  /\ j' = j + 1
  /\ UNCHANGED <<original, corrected, wordsO, wordsC, originalSegments, pc>>
  /\ UNCHANGED <<appVars, uiVars>>

\* Case 2, addition in corrected
StepInsert ==
  /\ pc = "loop" /\ LoopCond
  /\ ~IsExactMatch
  /\ ~IsSubstitution
  /\ ~IsDeletion
  /\ IsAddition
  /\ correctedSegments' = Append(correctedSegments, CorrAddNode(c, j))
  /\ ops' = Append(ops, Op("Insert"))
  /\ j' = j + 1
  /\ UNCHANGED <<original, corrected, wordsO, wordsC, i, originalSegments, pc>>
  /\ UNCHANGED <<appVars, uiVars>>

\* whitespace sync that emits a side only when both sides hold a token
StepWhitespacePaired ==
  /\ pc = "loop" /\ LoopCond
  /\ ~IsExactMatch
  /\ ~IsSubstitution
  /\ ~IsDeletion
  /\ ~IsAddition
  /\ LET take == Boolean(o) /\ IsSpaceRun(o) /\ Boolean(c) /\ IsSpaceRun(c)
     IN /\ originalSegments' =
             IF take THEN Append(originalSegments, WsONode(o, i))
                     ELSE originalSegments
        /\ i' = IF take THEN i + 1 ELSE i
        /\ correctedSegments' =
             IF take THEN Append(correctedSegments, WsCNode(c, j))
                     ELSE correctedSegments
        /\ j' = IF take THEN j + 1 ELSE j
        /\ ops' = ops \o (IF take THEN <<Op("Delete"), Op("Insert")>> ELSE <<>>)
  /\ UNCHANGED <<original, corrected, wordsO, wordsC, pc>>
  /\ UNCHANGED <<appVars, uiVars>>

\* whitespace sync without the tests of lines 65 and 69
StepWhitespaceUnguarded ==
  /\ pc = "loop" /\ LoopCond
  /\ ~IsExactMatch
  /\ ~IsSubstitution
  /\ ~IsDeletion
  /\ ~IsAddition
  /\ originalSegments' = Append(originalSegments, WsONode(o, i))
  /\ i' = i + 1
  /\ correctedSegments' = Append(correctedSegments, WsCNode(c, j))
  /\ j' = j + 1
  /\ ops' = ops \o <<Op("Delete"), Op("Insert")>>
  /\ UNCHANGED <<original, corrected, wordsO, wordsC, pc>>
  /\ UNCHANGED <<appVars, uiVars>>

\* Case 2, sync whitespace: each side that holds a whitespace token emits it
StepWhitespace ==
  /\ pc = "loop" /\ LoopCond
  /\ ~IsExactMatch
  /\ ~IsSubstitution
  /\ ~IsDeletion
  /\ ~IsAddition
  /\ LET takeO == Boolean(o) /\ IsSpaceRun(o)
         takeC == Boolean(c) /\ IsSpaceRun(c)
     IN /\ originalSegments' =
             IF takeO THEN Append(originalSegments, WsONode(o, i))
                      ELSE originalSegments
        /\ i' = IF takeO THEN i + 1 ELSE i
        /\ correctedSegments' =
             IF takeC THEN Append(correctedSegments, WsCNode(c, j))
                      ELSE correctedSegments
        /\ j' = IF takeC THEN j + 1 ELSE j
        /\ ops' = ops \o (IF takeO THEN <<Op("Delete")>> ELSE <<>>)
                      \o (IF takeC THEN <<Op("Insert")>> ELSE <<>>)
  /\ UNCHANGED <<original, corrected, wordsO, wordsC, pc>>
  /\ UNCHANGED <<appVars, uiVars>>

\* line 76
Return ==
  /\ pc = "loop" /\ ~LoopCond
  /\ pc' = "done"
  /\ UNCHANGED <<original, corrected, wordsO, wordsC, i, j,
                 originalSegments, correctedSegments, ops>>
  /\ UNCHANGED <<appVars, uiVars>>

Next ==
  \/ Enter
  \/ StepMatch
  \/ StepSubstitute
  \/ StepDelete
  \/ StepInsert
  \/ StepWhitespace
  \/ Return

Spec == Init /\ [][Next]_vars

\* The loop is sequential code: an iteration that can run does run.
FairSpec == Spec /\ WF_vars(Next)

TypeOK ==
  /\ pc \in {"start", "loop", "done"}
  /\ i \in 0..Len(wordsO)
  /\ j \in 0..Len(wordsC)

\* ------------------------------------------------- vocabulary of the claims
RECURSIVE Concat(_)
Concat(ss) == IF ss = <<>> THEN <<>> ELSE Head(ss) \o Concat(Tail(ss))

Texts(segs) == [k \in 1..Len(segs) |-> segs[k].text]

Keys(segs) == [k \in 1..Len(segs) |-> segs[k].key]

IsWord(t) == t # Undefined /\ Len(t) > 0 /\ \A k \in 1..Len(t) : t[k] \notin WhiteSpace

IsSpace(t) == t # Undefined /\ Len(t) > 0 /\ \A k \in 1..Len(t) : t[k] \in WhiteSpace

OpKinds(kinds) == {k \in 1..Len(ops) : ops[k].op \in kinds}

NonMatchCount == Cardinality(OpKinds({"Substitute", "Insert", "Delete"}))

\* The token an operation removes from the original / adds to the corrected.
Deletes(e) == e.op = "Delete"
Inserts(e) == e.op = "Insert"

\* Minimum number of edits turning token sequence x into y: match 0,
\* substitute, insert and delete 1 each.  A substitute pairs two words only
\* (the whitespace policy), so a whitespace token that is not matched costs
\* a delete or an insert of its own, as the walk counts it.
Min2(a, b) == IF a <= b THEN a ELSE b

EditDistance(x, y) ==
  LET ed[m \in 0..Len(x), n \in 0..Len(y)] ==
        IF m = 0 THEN n
        ELSE IF n = 0 THEN m
        ELSE LET oneSided == Min2(ed[m - 1, n] + 1, ed[m, n - 1] + 1)
             IN IF x[m] = y[n] THEN Min2(ed[m - 1, n - 1], oneSided)
                ELSE IF IsWord(x[m]) /\ IsWord(y[n])
                       THEN Min2(ed[m - 1, n - 1] + 1, oneSided)
                       ELSE oneSided
  IN ed[Len(x), Len(y)]

\* ---------------------------------------------------------------------- C1
\* C1: at every point of the loop the segments emitted so far spell exactly
\* the first i tokens of the original and the first j tokens of the
\* corrected text, and on return the texts of originalSegments concatenate
\* to original and those of correctedSegments to corrected.
C1_Reconstruction ==
  pc # "start" =>
    /\ i <= Len(wordsO) /\ j <= Len(wordsC)
    /\ Texts(originalSegments) = SubSeq(wordsO, 1, i)
    /\ Texts(correctedSegments) = SubSeq(wordsC, 1, j)
    /\ pc = "done" =>
         /\ Concat(Texts(originalSegments)) = original
         /\ Concat(Texts(correctedSegments)) = corrected

C1_Witness ==
  /\ pc = "done"
  /\ original # corrected
  /\ Len(originalSegments) >= 2 /\ Len(correctedSegments) >= 2
  /\ OpKinds({"Delete"}) # {} /\ OpKinds({"Insert"}) # {}

\* ---------------------------------------------------------------------- C2
\* C2: on return the number of non-Match operations equals the minimum edit
\* distance of the two token sequences.
C2_MinimumEdit ==
  pc = "done" => NonMatchCount = EditDistance(wordsO, wordsC)

\* ---------------------------------------------------------------------- C3
\* wordsC is wordsO with one word and one adjoining whitespace token inserted
\* at some position p.
OneWordInserted ==
  /\ Len(wordsC) = Len(wordsO) + 2
  /\ \E p \in 0..Len(wordsO) :
       /\ SubSeq(wordsC, 1, p) = SubSeq(wordsO, 1, p)
       /\ SubSeq(wordsC, p + 3, Len(wordsC)) = SubSeq(wordsO, p + 1, Len(wordsO))
       /\ \/ IsWord(wordsC[p + 1]) /\ IsSpace(wordsC[p + 2])
          \/ IsSpace(wordsC[p + 1]) /\ IsWord(wordsC[p + 2])

\* C3: when the corrected text is the original with one word and its
\* adjoining whitespace inserted, there is no Substitute: every original
\* token is a Match and the two new tokens are the only Inserts.
C3_SingleInsertion ==
  (pc = "done" /\ OneWordInserted) =>
    /\ OpKinds({"Substitute", "Delete"}) = {}
    /\ Cardinality(OpKinds({"Match"})) = Len(wordsO)
    /\ Cardinality(OpKinds({"Insert"})) = 2

\* ---------------------------------------------------------------------- C4
TokensOf(s, w) ==
  /\ Concat(w) = s
  /\ \A k \in 1..Len(w) : IsWord(w[k]) \/ IsSpace(w[k])
  /\ \A k \in 1..(Len(w) - 1) : IsWord(w[k]) = IsSpace(w[k + 1])
  /\ s = <<>> => w = <<>>

\* C4: the token array of a string is a sequence of non-empty tokens that
\* concatenate to the string, each all whitespace or all non-whitespace,
\* adjacent tokens of different kinds; the empty string has no token.
C4_Tokenization ==
  pc # "start" => TokensOf(original, wordsO) /\ TokensOf(corrected, wordsC)

C4_Witness ==
  /\ pc = "loop"
  /\ Len(wordsO) = 2 /\ IsSpace(wordsO[1]) /\ Len(wordsO[1]) = 2
  /\ Len(wordsC) = 3 /\ IsSpace(wordsC[2])

\* ---------------------------------------------------------------------- C5
\* C5: a string diffed against itself gives one Match per token: both lists
\* hold one Unchanged segment per token and nothing else.
C5_Identity ==
  (pc = "done" /\ original = corrected) =>
    /\ \A k \in 1..Len(ops) : ops[k].op = "Match"
    /\ Len(ops) = Len(wordsO)
    /\ originalSegments = correctedSegments
    /\ Len(originalSegments) = Len(wordsO)
    /\ \A k \in 1..Len(originalSegments) :
         /\ originalSegments[k].tag = "match"
         /\ originalSegments[k].cls = "text-slate-400"
         /\ originalSegments[k].text = wordsO[k]

C5_Witness ==
  /\ pc = "done"
  /\ original = corrected
  /\ Len(wordsO) = 3
  /\ \E k \in 1..3 : IsSpace(wordsO[k])

SpaceMismatch(e) ==
  /\ e.o # Undefined /\ e.c # Undefined /\ e.o # e.c
  /\ IsSpace(e.o) \/ IsSpace(e.c)

\* The operation that emitted original token e.i / corrected token e.j.
EmitsO(e, f) == f.i = e.i /\ f.op \in {"Match", "Substitute", "Delete"}
EmitsC(e, f) == f.j = e.j /\ f.op \in {"Match", "Substitute", "Insert"}

\* C7 as stated: no Substitute involves a whitespace token, and of a
\* whitespace token and the different token it faces, both are emitted by
\* one-sided operations.
C7_BothOneSided ==
  pc = "done" =>
    /\ \A k \in 1..Len(ops) :
         ops[k].op = "Substitute" => IsWord(ops[k].o) /\ IsWord(ops[k].c)
    /\ \A k \in 1..Len(ops) : SpaceMismatch(ops[k]) =>
         \A m \in 1..Len(ops) :
           /\ EmitsO(ops[k], ops[m]) => ops[m].op = "Delete"
           /\ EmitsC(ops[k], ops[m]) => ops[m].op = "Insert"

\* C7 (amended): no Substitute involves a whitespace token, and an iteration
\* in which a whitespace token faces a different token emits one-sided
\* operations only: both tokens when both are whitespace, the word alone
\* when the other token is a word (the whitespace token then stays under
\* its cursor and is emitted by a later Match, Delete or Insert).
C7_NoSpaceSubstitute ==
  /\ \A k \in 1..Len(ops) :
       ops[k].op = "Substitute" => IsWord(ops[k].o) /\ IsWord(ops[k].c)
  /\ \A k \in 1..Len(ops) : SpaceMismatch(ops[k]) =>
       /\ ops[k].op \in {"Delete", "Insert"}
       /\ IsSpace(ops[k].o) /\ IsSpace(ops[k].c) =>
            \E m \in 1..Len(ops) :
              /\ ops[m].i = ops[k].i /\ ops[m].j = ops[k].j
              /\ ops[m].op # ops[k].op
              /\ ops[m].op \in {"Delete", "Insert"}
       /\ IsWord(ops[k].o) => ops[k].op = "Delete"
       /\ IsWord(ops[k].c) => ops[k].op = "Insert"
  /\ \A k \in 1..Len(originalSegments) :
       originalSegments[k].tag = "orig-err" => IsWord(originalSegments[k].text)
  /\ \A k \in 1..Len(correctedSegments) :
       correctedSegments[k].tag = "corr-fix" => IsWord(correctedSegments[k].text)

C7_Witness ==
  /\ pc = "done"
  /\ \E k \in 1..Len(ops) :
       SpaceMismatch(ops[k]) /\ IsSpace(ops[k].o) /\ IsWord(ops[k].c)
  /\ \E k \in 1..Len(ops) :
       SpaceMismatch(ops[k]) /\ IsSpace(ops[k].o) /\ IsSpace(ops[k].c)

\* ---------------------------------------------------------------------- C8
\* C8: the operations never hold a Delete of a word followed, with only
\* whitespace operations in between, by an Insert of a word.
C8_NoDeleteThenInsert ==
  pc = "done" =>
    ~ \E k \in 1..Len(ops) : \E m \in (k + 1)..Len(ops) :
        /\ ops[k].op = "Delete" /\ IsWord(ops[k].o)
        /\ ops[m].op = "Insert" /\ IsWord(ops[m].c)
        /\ \A n \in (k + 1)..(m - 1) :
             \/ ops[n].op = "Delete" /\ IsSpace(ops[n].o)
             \/ ops[n].op = "Insert" /\ IsSpace(ops[n].c)

\* ---------------------------------------------------------------------- C9
\* C9: an iteration that takes the Match branch appends one and the same
\* Unchanged segment (same text, same key) to both lists, and it does so
\* only when the original token and the corrected token are equal texts.
C9_Match ==
  [][(Len(ops') > Len(ops) /\ ops'[Len(ops')].op = "Match") =>
       /\ o # Undefined /\ o = c
       /\ Len(ops') = Len(ops) + 1
       /\ originalSegments' = Append(originalSegments,
                                     originalSegments'[Len(originalSegments')])
       /\ correctedSegments' = Append(correctedSegments,
                                      correctedSegments'[Len(correctedSegments')])
       /\ LET a == originalSegments'[Len(originalSegments')]
              b == correctedSegments'[Len(correctedSegments')]
          IN /\ a.text = o /\ b.text = c
             /\ a.key = b.key
             /\ a.cls = "text-slate-400" /\ b.cls = "text-slate-400"
             /\ a.tag = "match" /\ b.tag = "match"]_vars

C9_Witness ==
  /\ pc = "done"
  /\ Cardinality(OpKinds({"Match"})) >= 2
  /\ OpKinds({"Insert"}) # {}
  /\ \E k \in 1..Len(originalSegments) : \E m \in 1..Len(correctedSegments) :
       /\ k # m
       /\ originalSegments[k].tag = "match"
       /\ originalSegments[k] = correctedSegments[m]

\* --------------------------------------------------------------------- C10
\* C10: within one call no two segments of one list carry the same key, and
\* a key found in both lists is the key of the two halves of one Match.
C10_Keys ==
  /\ \A k, m \in 1..Len(originalSegments) :
       originalSegments[k].key = originalSegments[m].key => k = m
  /\ \A k, m \in 1..Len(correctedSegments) :
       correctedSegments[k].key = correctedSegments[m].key => k = m
  /\ \A k \in 1..Len(originalSegments) : \A m \in 1..Len(correctedSegments) :
       originalSegments[k].key = correctedSegments[m].key =>
         /\ originalSegments[k] = correctedSegments[m]
         /\ originalSegments[k].tag = "match"
         /\ wordsO[k] = wordsC[m]
         /\ \E n \in 1..Len(ops) :
              ops[n].op = "Match" /\ ops[n].i = k - 1 /\ ops[n].j = m - 1

C10_Witness ==
  /\ pc = "done"
  /\ Len(originalSegments) = 3 /\ Len(correctedSegments) = 3
  /\ \E k \in 1..3 : originalSegments[k].tag = "match"
  /\ \E k \in 1..3 : originalSegments[k].tag = "ws-o"
  /\ \E k \in 1..3 : correctedSegments[k].tag = "ws-c"

\* --------------------------------------------------------------------- C11
\* C11: an iteration that takes the deletion branch appends exactly one
\* removed-style segment to the original list and advances only i, leaving
\* the corrected list and j alone; an iteration that takes the addition
\* branch appends exactly one added-style segment to the corrected list and
\* advances only j, leaving the original list and i alone.
C11_OneSidedSteps ==
  [][/\ (/\ Len(originalSegments') > Len(originalSegments)
         /\ originalSegments'[Len(originalSegments')].tag = "orig-del") =>
          /\ originalSegments' = Append(originalSegments, OrigDelNode(o, i))
          /\ originalSegments'[Len(originalSegments')].cls = "text-red-400/80"
          /\ originalSegments'[Len(originalSegments')].text = wordsO[i + 1]
          /\ i' = i + 1 /\ j' = j
          /\ correctedSegments' = correctedSegments
     /\ (/\ Len(correctedSegments') > Len(correctedSegments)
         /\ correctedSegments'[Len(correctedSegments')].tag = "corr-add") =>
          /\ correctedSegments' = Append(correctedSegments, CorrAddNode(c, j))
          /\ correctedSegments'[Len(correctedSegments')].cls = "text-[#00f5b4]"
          /\ correctedSegments'[Len(correctedSegments')].text = wordsC[j + 1]
          /\ j' = j + 1 /\ i' = i
          /\ originalSegments' = originalSegments]_vars

C11_Witness ==
  /\ pc = "done"
  /\ \E k \in 1..Len(originalSegments) : originalSegments[k].tag = "orig-del"
  /\ \E k \in 1..Len(correctedSegments) : correctedSegments[k].tag = "corr-add"

\* --------------------------------------------------------------------- C12
\* The iterations run so far: each one leaves at least one entry in ops, and
\* the entries of one iteration share its cursors.
Iterations == Cardinality({<<ops[k].i, ops[k].j>> : k \in 1..Len(ops)})

\* C12: every call returns; each iteration advances i or j by at least one
\* and neither cursor moves back, so there are at most
\* tokenCount(original) + tokenCount(corrected) iterations, and on return
\* both cursors are at the ends of their arrays.
C12_Termination ==
  /\ <>(pc = "done")
  /\ [][(pc = "loop" /\ pc' = "loop") =>
          (i' >= i /\ j' >= j /\ i' + j' > i + j)]_vars
  /\ [](pc # "start" => Iterations <= Len(wordsO) + Len(wordsC))
  /\ [](pc = "done" => (i >= Len(wordsO) /\ j >= Len(wordsC)))

C12_Witness ==
  /\ pc = "done"
  /\ Iterations = 3
  /\ Iterations = Len(wordsO) + Len(wordsC)

\* --------------------------------------------------------------------- C13
\* wordsC is a proper, non-empty prefix of wordsO.
TokenPrefix ==
  /\ 0 < Len(wordsC) /\ Len(wordsC) < Len(wordsO)
  /\ SubSeq(wordsO, 1, Len(wordsC)) = wordsC

\* C13: when the corrected text is a token-prefix of the original, every
\* original token beyond the prefix is emitted by a Delete, in the original
\* list only (a word as a removed segment, whitespace as the pass-through
\* segment of that list), and the corrected list holds Unchanged segments
\* only and ends at the last common token.
C13_TrailingDeletes ==
  (pc = "done" /\ TokenPrefix) =>
    /\ Len(correctedSegments) = Len(wordsC)
    /\ Len(originalSegments) = Len(wordsO)
    /\ \A k \in 1..Len(wordsC) :
         /\ correctedSegments[k].tag = "match"
         /\ correctedSegments[k].text = wordsC[k]
         /\ originalSegments[k] = correctedSegments[k]
    /\ \A k \in (Len(wordsC) + 1)..Len(wordsO) :
         /\ originalSegments[k].text = wordsO[k]
         /\ originalSegments[k].tag =
              IF IsWord(wordsO[k]) THEN "orig-del" ELSE "ws-o"
         /\ \E n \in 1..Len(ops) :
              ops[n].op = "Delete" /\ ops[n].i = k - 1 /\ ops[n].c = Undefined
    /\ OpKinds({"Insert", "Substitute"}) = {}

C13_Witness ==
  /\ pc = "done"
  /\ TokenPrefix
  /\ Len(wordsO) = Len(wordsC) + 2

\* --------------------------------------------------------------------- C15
\* C15: the number of non-Match operations never exceeds
\* tokenCount(original) + tokenCount(corrected).
C15_CostBound ==
  pc # "start" => NonMatchCount <= Len(wordsO) + Len(wordsC)

C15_Witness ==
  /\ pc = "done"
  /\ NonMatchCount = Len(wordsO) + Len(wordsC)
  /\ NonMatchCount >= 3

\* --------------------------------------------------------------------- C16
\* The two token arrays differ in exactly one position, a word on each side.
OneWordReplaced(p) ==
  /\ Len(wordsO) = Len(wordsC)
  /\ p \in 1..Len(wordsO)
  /\ wordsO[p] # wordsC[p] /\ IsWord(wordsO[p]) /\ IsWord(wordsC[p])
  /\ \A k \in 1..Len(wordsO) : k # p => wordsO[k] = wordsC[k]

\* C16: an iteration that takes the substitution branch appends exactly one
\* removed-style segment holding the original token to the original list
\* and one added-style segment holding the corrected token to the corrected
\* list, under two different keys, and advances both cursors by one; two
\* texts that differ in one word at one token position give Matches and
\* that one Substitute.
C16_Substitute ==
  /\ [][(Len(ops') > Len(ops) /\ ops'[Len(ops')].op = "Substitute") =>
          /\ Len(ops') = Len(ops) + 1
          /\ i' = i + 1 /\ j' = j + 1
          /\ originalSegments' =
               Append(originalSegments, originalSegments'[Len(originalSegments')])
          /\ correctedSegments' =
               Append(correctedSegments, correctedSegments'[Len(correctedSegments')])
          /\ LET a == originalSegments'[Len(originalSegments')]
                 b == correctedSegments'[Len(correctedSegments')]
             IN /\ a.text = wordsO[i + 1] /\ b.text = wordsC[j + 1]
                /\ a.cls = "text-red-400/80" /\ b.cls = "text-[#00f5b4]"
                /\ a.key # b.key]_vars
  /\ [](pc = "done" => \A p \in 1..Len(wordsO) : OneWordReplaced(p) =>
          /\ Len(ops) = Len(wordsO)
          /\ \A k \in 1..Len(ops) :
               ops[k].op = IF k = p THEN "Substitute" ELSE "Match")

C16_Witness ==
  /\ pc = "done"
  /\ Len(wordsO) = 3
  /\ OneWordReplaced(3)

\* --------------------------------------------------------------------- C17
StyleOfSpace(seg, list) ==
  \/ seg.tag = "match" /\ seg.cls = "text-slate-400"
  \/ seg.tag = list /\ seg.cls = ""

\* C17: a whitespace token is never emitted with the removed or the added
\* style: in both lists it appears verbatim, as an Unchanged segment when
\* it was matched and as an unstyled segment otherwise.
C17_SpaceUnstyled ==
  pc # "start" =>
    /\ \A k \in 1..Len(originalSegments) :
         IsSpace(wordsO[k]) =>
           /\ originalSegments[k].text = wordsO[k]
           /\ StyleOfSpace(originalSegments[k], "ws-o")
    /\ \A k \in 1..Len(correctedSegments) :
         IsSpace(wordsC[k]) =>
           /\ correctedSegments[k].text = wordsC[k]
           /\ StyleOfSpace(correctedSegments[k], "ws-c")

C17_Witness ==
  /\ pc = "done"
  /\ \E k \in 1..Len(originalSegments) : originalSegments[k].tag = "ws-o"
  /\ \E k \in 1..Len(correctedSegments) :
       correctedSegments[k].tag = "match" /\ IsSpace(correctedSegments[k].text)
  /\ \E k \in 1..Len(correctedSegments) : correctedSegments[k].tag = "ws-c"

\* ===========================================================================
\* App (src/unnamed/part_000), the client service analyzeText
\* (src/unnamed/part_001), the /api/analyze route (src/unnamed/part_002) and
\* secureAnalyzeHandler (src/api/handler.ts).  One call of analyzeText is
\* followed through its stages: sent, worker answered, handler settled,
\* route answered, client settled.  Toasts and menu visibility are display
\* state that no handler reads back; they are left out.
\* ===========================================================================

\* The editor texts and the texts the worker returns.
ContentValues == {<<>>, <<" ">>, <<"a">>, <<"b">>}

CorrectedValues == {<<>>, <<"a">>, <<"b">>}

STYLE_WHITELIST ==
  {"normal", "professional", "academic", "friendly", "email", "creative"}

\* The styles a caller may pass to updateStyleSecurely.
StyleInputs == {"normal", "academic", "unlisted"}

\* ------------------------------------------------------------- JS values
Undef == [t |-> "undefined", v |-> <<>>]
JsNull == [t |-> "null", v |-> <<>>]
Str(s) == [t |-> "string", v |-> s]

\* An error message, a string that is never split.
Msg(m) == <<m>>

\* x || d
OrElse(x, d) == IF x.t = "string" /\ x.v # <<>> THEN x.v ELSE d

\* What response.json() gives: a parse failure, null, a number, or an object
\* with its `corrected` and `error` properties.
InvalidBody == [type |-> "invalid", corrected |-> Undef, error |-> Undef]
NullBody == [type |-> "null", corrected |-> Undef, error |-> Undef]
ScalarBody == [type |-> "scalar", corrected |-> Undef, error |-> Undef]
ObjectBody(corr, err) == [type |-> "object", corrected |-> corr, error |-> err]

ErrorBodies ==
  {InvalidBody, NullBody, ObjectBody(Undef, Undef), ObjectBody(Undef, Str(Msg("e")))}

OkBodies ==
  {InvalidBody, NullBody, ScalarBody,
   ObjectBody(Undef, Undef), ObjectBody(Undef, Str(Msg("e"))),
   ObjectBody(JsNull, Undef)}
  \cup {ObjectBody(Str(t), Undef) : t \in CorrectedValues}

\* What fetch(WORKER_URL) can do: reject, or resolve with a response.
WorkerOutcomes ==
  {[net |-> "failed", ok |-> FALSE, status |-> 0, body |-> InvalidBody]}
  \cup {[net |-> "ok", ok |-> FALSE, status |-> 500, body |-> b] : b \in ErrorBodies}
  \cup {[net |-> "ok", ok |-> TRUE, status |-> 200, body |-> b] : b \in OkBodies}

NoWorker == [net |-> "none", ok |-> FALSE, status |-> 0, body |-> InvalidBody]

\* A settled promise.
Resolved(data) == [settled |-> "resolved", data |-> data, message |-> <<>>]
Rejected(m) == [settled |-> "rejected", data |-> InvalidBody, message |-> m]
Pending == [settled |-> "pending", data |-> InvalidBody, message |-> <<>>]

\* ------------------------------------------------- secureAnalyzeHandler
\* the try block without the test of lines 41-43
AnalyzeTryUnchecked(w) ==
  IF w.net = "failed" THEN Rejected(Msg("fetch failed"))
  ELSE IF ~w.ok THEN
    LET errorData == IF w.body.type = "invalid" THEN ObjectBody(Undef, Undef)
                     ELSE w.body
    IN IF errorData.type = "null"
         THEN Rejected(Msg("Cannot read properties of null (reading 'error')"))
         ELSE Rejected(OrElse(errorData.error,
                Msg("API request failed with status " \o ToString(w.status))))
  ELSE IF w.body.type = "invalid"
    THEN Rejected(Msg("Unexpected token in JSON"))
  ELSE Resolved(w.body)

\* handler.ts lines 19-46, the body of the try block
AnalyzeTry(w) ==
  IF w.net = "failed" THEN Rejected(Msg("fetch failed"))
  ELSE IF ~w.ok THEN
    LET errorData == IF w.body.type = "invalid" THEN ObjectBody(Undef, Undef)
                     ELSE w.body
    IN IF errorData.type = "null"
         THEN Rejected(Msg("Cannot read properties of null (reading 'error')"))
         ELSE Rejected(OrElse(errorData.error,
                Msg("API request failed with status " \o ToString(w.status))))
  ELSE IF w.body.type = "invalid"
    THEN Rejected(Msg("Unexpected token in JSON"))
  ELSE IF w.body.type = "null" \/ w.body.corrected.t = "undefined"
    THEN Rejected(Msg("Invalid response format: 'corrected' field missing"))
  ELSE Resolved(w.body)

\* handler.ts lines 17-55: the catch block re-throws with the message
secureAnalyzeHandler(w) ==
  LET r == AnalyzeTry(w)
  IN IF r.settled = "resolved" THEN r
     ELSE Rejected(IF r.message # <<>> THEN r.message
                   ELSE Msg("The writing assistant service is currently unavailable. Please try again later."))

\* part_002 lines 12-23: the /api/analyze route
NoResponse == [status |-> 0, body |-> InvalidBody]

AnalyzeRoute(h) ==
  IF h.settled = "resolved" THEN [status |-> 200, body |-> h.data]
  ELSE [status |-> 500,
        body |-> ObjectBody(Undef,
                   Str(IF h.message # <<>> THEN h.message
                       ELSE Msg("Internal Server Error")))]

\* part_001 lines 7-28: analyzeText, given the response of the route
analyzeText(resp) ==
  IF resp.status < 200 \/ resp.status > 299
    THEN Rejected(OrElse(resp.body.error, Msg("Failed to analyze text")))
    ELSE Resolved(resp.body)

\* ------------------------------------------------------------------- App
\* content.trim() is empty
Blank(text) == Trim(text) = <<>>

NewRequest(kind) ==
  [stage |-> "sent", kind |-> kind, text |-> content, tone |-> paraphraseStyle,
   worker |-> NoWorker, handler |-> Pending, response |-> NoResponse,
   client |-> Pending]

\* Editor onChange (part_000 line 465)
EditContent(v) ==
  /\ content' = v
  /\ lastEvent' = "edit"
  /\ UNCHANGED <<analysis, isLoading, paraphraseStyle, request>>
  /\ UNCHANGED <<diffVars, uiVars>>

\* the style is stored without the whitelist test
StyleUpdateUnchecked(style) ==
  /\ paraphraseStyle' = style
  /\ isStyleMenuOpen' = FALSE

\* part_000 lines 86-93: the state updateStyleSecurely writes
StyleUpdate(style) ==
  /\ paraphraseStyle' = IF style \in STYLE_WHITELIST THEN style ELSE "normal"
  /\ isStyleMenuOpen' = IF style \in STYLE_WHITELIST THEN FALSE ELSE isStyleMenuOpen

\* part_000 lines 85-94
updateStyleSecurely(style) ==
  /\ StyleUpdate(style)
  /\ lastEvent' = IF style \in STYLE_WHITELIST THEN "style:set" ELSE "style:blocked"
  /\ UNCHANGED <<content, analysis, isLoading, request>>
  /\ UNCHANGED <<authVars, historyVars, selectedMode, exported, correctedFrom>>
  /\ UNCHANGED diffVars

\* part_000 lines 146-156, up to the await; the button is disabled while
\* isLoading (line 487)
handleCheckGrammar ==
  /\ ~isLoading
  /\ IF Blank(content)
       THEN /\ lastEvent' = "checkGrammar:blank"
            /\ UNCHANGED <<isLoading, request>>
       ELSE /\ isLoading' = TRUE
            /\ request' = NewRequest("grammar")
            /\ lastEvent' = "checkGrammar:sent"
  /\ UNCHANGED <<content, analysis, paraphraseStyle>>
  /\ UNCHANGED <<diffVars, uiVars>>

\* part_000 lines 179-189, up to the await; the button is disabled while
\* isLoading (line 499)
handleParaphrase ==
  /\ ~isLoading
  /\ IF Blank(content)
       THEN /\ lastEvent' = "paraphrase:blank"
            /\ UNCHANGED <<isLoading, request>>
       ELSE /\ isLoading' = TRUE
            /\ request' = NewRequest("paraphrase")
            /\ lastEvent' = "paraphrase:sent"
  /\ UNCHANGED <<content, analysis, paraphraseStyle>>
  /\ UNCHANGED <<diffVars, uiVars>>

\* The browser's fetch("/api/analyze") rejects (part_001 lines 11-17, 25-27).
ClientFetchFails ==
  /\ request.stage = "sent"
  /\ request' = [request EXCEPT !.stage = "client",
                                !.client = Rejected(Msg("Failed to fetch"))]
  /\ UNCHANGED <<content, analysis, isLoading, paraphraseStyle, lastEvent>>
  /\ UNCHANGED <<diffVars, uiVars>>

\* The worker answers the fetch of handler.ts line 20.
WorkerResponds(w) ==
  /\ request.stage = "sent"
  /\ request' = [request EXCEPT !.stage = "worker", !.worker = w]
  /\ UNCHANGED <<content, analysis, isLoading, paraphraseStyle, lastEvent>>
  /\ UNCHANGED <<diffVars, uiVars>>

\* secureAnalyzeHandler settles.
HandlerSettles ==
  /\ request.stage = "worker"
  /\ request' = [request EXCEPT !.stage = "handler",
                                !.handler = secureAnalyzeHandler(request.worker)]
  /\ UNCHANGED <<content, analysis, isLoading, paraphraseStyle, lastEvent>>
  /\ UNCHANGED <<diffVars, uiVars>>

\* The route sends its response.
RouteAnswers ==
  /\ request.stage = "handler"
  /\ request' = [request EXCEPT !.stage = "route",
                                !.response = AnalyzeRoute(request.handler)]
  /\ UNCHANGED <<content, analysis, isLoading, paraphraseStyle, lastEvent>>
  /\ UNCHANGED <<diffVars, uiVars>>

\* analyzeText settles.
AnalyzeTextSettles ==
  /\ request.stage = "route"
  /\ request' = [request EXCEPT !.stage = "client",
                                !.client = analyzeText(request.response)]
  /\ UNCHANGED <<content, analysis, isLoading, paraphraseStyle, lastEvent>>
  /\ UNCHANGED <<diffVars, uiVars>>

\* prev?.field || ''
PrevField(prev, field) == IF prev = Null THEN <<>> ELSE prev[field]

\* (result as any).corrected || ''
ResultCorrected(result) == OrElse(result.corrected, <<>>)

\* a grammar result that does not carry the paraphrase over
GrammarAnalysisReset(prev, result, tone) ==
  [detected_language |-> Msg("auto"),
   corrected_text |-> ResultCorrected(result),
   rewrite |-> <<>>,
   paraphrase |-> <<>>,
   tone |-> tone]

\* part_000 lines 158-164
GrammarAnalysis(prev, result, tone) ==
  [detected_language |-> Msg("auto"),
   corrected_text |-> ResultCorrected(result),
   rewrite |-> <<>>,
   paraphrase |-> PrevField(prev, "paraphrase"),
   tone |-> tone]

\* part_000 lines 192-198
ParaphraseAnalysis(prev, result, tone) ==
  [detected_language |->
     IF PrevField(prev, "detected_language") # <<>>
       THEN PrevField(prev, "detected_language") ELSE Msg("auto"),
   corrected_text |-> PrevField(prev, "corrected_text"),
   rewrite |-> <<>>,
   paraphrase |-> ResultCorrected(result),
   tone |-> tone]

\* reading .corrected of the result throws (the result is null)
ResultThrows(result) == result.type = "null"

\* part_000 lines 157-172, after the await
ResumeCheckGrammar ==
  /\ request.stage = "client" /\ request.kind = "grammar"
  /\ IF request.client.settled = "resolved" /\ ~ResultThrows(request.client.data)
       THEN /\ analysis' = GrammarAnalysis(analysis, request.client.data, request.tone)
            /\ correctedFrom' = request.text
            /\ lastEvent' = "checkGrammar:done"
       ELSE /\ analysis' = analysis
            /\ correctedFrom' = correctedFrom
            /\ lastEvent' = "checkGrammar:failed"
  /\ isLoading' = FALSE
  /\ request' = NoRequest
  /\ UNCHANGED <<content, paraphraseStyle>>
  /\ UNCHANGED <<authVars, historyVars, selectedMode, isStyleMenuOpen, exported>>
  /\ UNCHANGED diffVars

\* the paraphrase continuation with setIsLoading(false) on the success path
\* only
ResumeParaphraseNoFinally ==
  /\ request.stage = "client" /\ request.kind = "paraphrase"
  /\ IF request.client.settled = "resolved" /\ ~ResultThrows(request.client.data)
       THEN /\ analysis' = ParaphraseAnalysis(analysis, request.client.data, request.tone)
            /\ lastEvent' = "paraphrase:done"
            /\ isLoading' = FALSE
       ELSE /\ analysis' = analysis
            /\ lastEvent' = "paraphrase:failed"
            /\ isLoading' = isLoading
  /\ request' = NoRequest
  /\ UNCHANGED <<content, paraphraseStyle>>
  /\ UNCHANGED <<diffVars, uiVars>>

\* part_000 lines 191-206, after the await
ResumeParaphrase ==
  /\ request.stage = "client" /\ request.kind = "paraphrase"
  /\ IF request.client.settled = "resolved" /\ ~ResultThrows(request.client.data)
       THEN /\ analysis' = ParaphraseAnalysis(analysis, request.client.data, request.tone)
            /\ lastEvent' = "paraphrase:done"
       ELSE /\ analysis' = analysis
            /\ lastEvent' = "paraphrase:failed"
  /\ isLoading' = FALSE
  /\ request' = NoRequest
  /\ UNCHANGED <<content, paraphraseStyle>>
  /\ UNCHANGED <<diffVars, uiVars>>

\* Clear All (part_000 line 469), the same updates as Delete Workspace
\* (lines 263-267)
ClearWorkspace ==
  /\ content' = <<>>
  /\ analysis' = Null
  /\ correctedFrom' = NoText
  /\ lastEvent' = "clear"
  /\ UNCHANGED <<isLoading, paraphraseStyle, request>>
  /\ UNCHANGED <<authVars, historyVars, selectedMode, isStyleMenuOpen, exported>>
  /\ UNCHANGED diffVars

\* Apply Improvements (part_000 line 479); the Sidebar shows the button only
\* when it is not loading and has an analysis (Sidebar.tsx lines 108-126)
ApplyImprovements ==
  /\ ~isLoading /\ analysis # Null
  /\ content' = analysis.corrected_text
  /\ lastEvent' = "apply"
  /\ UNCHANGED <<analysis, isLoading, paraphraseStyle, request>>
  /\ UNCHANGED <<diffVars, uiVars>>

\* The diff is idle while App is explored.
DiffIdle ==
  /\ original = <<>> /\ corrected = <<>>
  /\ wordsO = <<>> /\ wordsC = <<>>
  /\ i = 0 /\ j = 0
  /\ originalSegments = <<>> /\ correctedSegments = <<>>
  /\ ops = <<>>
  /\ pc = "start"

AppInit == AppStart /\ UiStart /\ DiffIdle

AppNext ==
  \/ \E v \in ContentValues : EditContent(v)
  \/ \E style \in StyleInputs : updateStyleSecurely(style)
  \/ handleCheckGrammar
  \/ handleParaphrase
  \/ ClientFetchFails
  \/ \E w \in WorkerOutcomes : WorkerResponds(w)
  \/ HandlerSettles
  \/ RouteAnswers
  \/ AnalyzeTextSettles
  \/ ResumeCheckGrammar
  \/ ResumeParaphrase
  \/ ClearWorkspace
  \/ ApplyImprovements

AppSpec == AppInit /\ [][AppNext]_vars

\* A settled promise's continuation is run by the job queue.
AppFairSpec ==
  AppSpec /\ WF_vars(ResumeCheckGrammar) /\ WF_vars(ResumeParaphrase)

AppTypeOK ==
  /\ content \in ContentValues
  /\ isLoading \in BOOLEAN
  /\ paraphraseStyle \in STYLE_WHITELIST
  /\ isLoading <=> request # NoRequest

\* --------------------------------------------------------------------- C18
\* The fields of the analysis as the code reads them (prev?.field || '');
\* no analysis reads as empty texts and the language 'auto'.
CorrectedTextOf(a) == IF a = Null THEN <<>> ELSE a.corrected_text
ParaphraseOf(a) == IF a = Null THEN <<>> ELSE a.paraphrase
LanguageOf(a) == IF a = Null THEN Msg("auto") ELSE a.detected_language

\* The step in which a handler resumes after its await.
Resumes == request.stage = "client" /\ request'.stage = "none"

\* The text the worker returned for the request in flight.
Returned == OrElse(request.worker.body.corrected, <<>>)

\* C18: a successful grammar check replaces corrected_text by the returned
\* text and leaves paraphrase as it was; a successful paraphrase replaces
\* paraphrase by the returned text and leaves corrected_text and
\* detected_language as they were; a failed request of either kind leaves
\* the whole analysis unchanged.
C18_SeparateResults ==
  [][Resumes =>
       IF request.client.settled = "resolved"
         THEN /\ analysis' # Null
              /\ request.kind = "grammar" =>
                   /\ analysis'.corrected_text = Returned
                   /\ analysis'.paraphrase = ParaphraseOf(analysis)
              /\ request.kind = "paraphrase" =>
                   /\ analysis'.paraphrase = Returned
                   /\ analysis'.corrected_text = CorrectedTextOf(analysis)
                   /\ analysis'.detected_language = LanguageOf(analysis)
         ELSE analysis' = analysis]_vars

C18_Witness ==
  /\ analysis # Null
  /\ analysis.corrected_text = <<"a">>
  /\ analysis.paraphrase = <<"b">>
  /\ lastEvent = "checkGrammar:done"

\* --------------------------------------------------------------------- C19
\* The worker answered OK with an object that has a defined `corrected`.
WorkerGood(w) ==
  /\ w.net = "ok" /\ w.ok
  /\ w.body.type = "object"
  /\ w.body.corrected.t # "undefined"

\* C19: secureAnalyzeHandler resolves, with the worker's data, exactly when
\* the worker answered OK with a defined `corrected`; otherwise it rejects
\* with a message, and the route answers 500 with that message; a 200 body
\* always has `corrected`.
C19_HandlerContract ==
  (request.stage \in {"handler", "route", "client"} /\ request.worker # NoWorker) =>
    /\ request.handler.settled = "resolved" <=> WorkerGood(request.worker)
    /\ request.handler.settled = "resolved" =>
         request.handler.data = request.worker.body
    /\ request.handler.settled # "resolved" =>
         request.handler.settled = "rejected" /\ request.handler.message # <<>>
    /\ request.stage \in {"route", "client"} =>
         IF WorkerGood(request.worker)
           THEN request.response = [status |-> 200, body |-> request.worker.body]
           ELSE /\ request.response.status = 500
                /\ request.response.body.error = Str(request.handler.message)
                /\ request.response.body.corrected = Undef

C19_Witness ==
  /\ request.stage = "client"
  /\ request.worker.ok
  /\ request.worker.body.type = "object"
  /\ request.worker.body.corrected = Undef
  /\ request.response.status = 500
  /\ request.client.settled = "rejected"

\* --------------------------------------------------------------------- C20
\* C20: a request is started only with content that is not blank and sets
\* isLoading; isLoading stays set while the call is in flight and, once the
\* call has settled, becomes false again whether it succeeded or failed;
\* a handler run with blank content sends nothing and leaves isLoading and
\* analysis unchanged.
C20_Loading ==
  /\ [][(request.stage = "none" /\ request'.stage # "none") =>
          /\ ~Blank(content)
          /\ request'.stage = "sent" /\ request'.text = content
          /\ isLoading' = TRUE]_vars
  /\ [][(request.stage # "none" /\ request'.stage # "none") =>
          (isLoading /\ isLoading')]_vars
  /\ [][(lastEvent' # lastEvent
         /\ lastEvent' \in {"checkGrammar:blank", "paraphrase:blank"}) =>
          /\ Blank(content)
          /\ request.stage = "none" /\ request' = request
          /\ isLoading' = isLoading
          /\ analysis' = analysis]_vars
  /\ [][Resumes => isLoading' = FALSE]_vars
  /\ (request.stage = "client") ~> (request.stage = "none" /\ ~isLoading)

C20_Witness ==
  /\ lastEvent = "paraphrase:failed"
  /\ ~isLoading
  /\ request.stage = "none"
  /\ analysis # Null

\* ===========================================================================
\* The toolbar, the signup dialog, the history panel and the style menu of
\* App (src/unnamed/part_000).  An entry's date and the toasts are display
\* only and are left out.
\* ===========================================================================

\* The number of saves explored.
MaxSaves == 1

\* isAuthenticated (line 27)
isAuthenticated == user # Null

\* The toolbar buttons (line 432).
ToolbarIndices == {0, 1, 2, 3, 4, 5}

\* The modes of WritingMode (src/types.ts lines 2-10) and a value outside it.
Modes ==
  {"Business Email", "Academic Essay", "Resume Bullet Points",
   "Creative Writing", "Blog Paragraph", "Inbox Optimization Intelligence",
   "Correction", "unlisted"}

\* styleMap[mode] || 'normal' (lines 98-107)
styleMap(mode) ==
  CASE mode = "Business Email" -> "email"
    [] mode = "Academic Essay" -> "academic"
    [] mode = "Resume Bullet Points" -> "professional"
    [] mode = "Creative Writing" -> "creative"
    [] mode = "Blog Paragraph" -> "friendly"
    [] mode = "Inbox Optimization Intelligence" -> "professional"
    [] mode = "Correction" -> "normal"
    [] OTHER -> "normal"

\* analysis?.corrected_text || content (lines 229 and 275)
textToExport ==
  IF analysis # Null /\ analysis.corrected_text # <<>>
    THEN analysis.corrected_text
    ELSE content

\* saved.sort((a, b) => b.id - a.id) (line 79)
RECURSIVE InsertDesc(_, _)
InsertDesc(e, s) ==
  IF s = <<>> \/ Head(s).id <= e.id
    THEN <<e>> \o s
    ELSE <<Head(s)>> \o InsertDesc(e, Tail(s))

RECURSIVE SortDesc(_)
SortDesc(s) ==
  IF s = <<>> THEN <<>> ELSE InsertDesc(Head(s), SortDesc(Tail(s)))

\* existingSaves.filter(item => item.id !== id) (line 214)
RECURSIVE WithoutId(_, _)
WithoutId(s, id) ==
  IF s = <<>> THEN <<>>
  ELSE IF Head(s).id = id THEN WithoutId(Tail(s), id)
  ELSE <<Head(s)>> \o WithoutId(Tail(s), id)

\* fetchHistory (lines 75-83): what setHistoryItems receives
fetchHistory(storage) == SortDesc(storage)

\* Of the handlers below, the toolbar's and those that write the editor
\* text, the style or the analysis record themselves in lastEvent.
appIdle == UNCHANGED <<content, analysis, isLoading, paraphraseStyle, request,
                       lastEvent>>

\* Log In and Sign Up (lines 318-319)
OpenAuthModal ==
  /\ isAuthModalOpen' = TRUE
  /\ UNCHANGED <<user, isAuthLoading>>
  /\ UNCHANGED <<historyVars, selectedMode, isStyleMenuOpen, exported, correctedFrom>>
  /\ appIdle
  /\ UNCHANGED diffVars

\* the backdrop and Maybe later (lines 328 and 379)
CloseAuthModal ==
  /\ isAuthModalOpen
  /\ isAuthModalOpen' = FALSE
  /\ UNCHANGED <<user, isAuthLoading>>
  /\ UNCHANGED <<historyVars, selectedMode, isStyleMenuOpen, exported, correctedFrom>>
  /\ appIdle
  /\ UNCHANGED diffVars

\* Continue with Google (line 370)
DemoLogin ==
  /\ isAuthModalOpen
  /\ user' = [name |-> "Demo User"]
  /\ isAuthModalOpen' = FALSE
  /\ UNCHANGED isAuthLoading
  /\ UNCHANGED <<historyVars, selectedMode, isStyleMenuOpen, exported, correctedFrom>>
  /\ appIdle
  /\ UNCHANGED diffVars

\* handleSignup up to its await (lines 115-128); valid stands for the test
\* of the email field on line 117, and the button is disabled while
\* isAuthLoading (line 354)
handleSignup(valid) ==
  /\ isAuthModalOpen /\ ~isAuthLoading
  /\ isAuthLoading' = valid
  /\ UNCHANGED <<user, isAuthModalOpen>>
  /\ UNCHANGED <<historyVars, selectedMode, isStyleMenuOpen, exported, correctedFrom>>
  /\ appIdle
  /\ UNCHANGED diffVars

\* handleSignup after its await (lines 130-143); ok is response.ok, and a
\* rejected fetch goes the way of a response that is not ok
SignupSettles(ok) ==
  /\ isAuthLoading
  /\ IF ok
       THEN /\ user' = [email |-> "email"]
            /\ isAuthModalOpen' = FALSE
       ELSE /\ user' = user
            /\ isAuthModalOpen' = isAuthModalOpen
  /\ isAuthLoading' = FALSE
  /\ UNCHANGED <<historyVars, selectedMode, isStyleMenuOpen, exported, correctedFrom>>
  /\ appIdle
  /\ UNCHANGED diffVars

\* the gate without Save to History
AuthRequiredNoSave == {1, 2, 3}

\* [1, 2, 3, 5] (line 224)
AuthRequired == {1, 2, 3, 5}

\* what the browser receives from an export (lines 233, 242 and 254)
Export(kind, text) == [kind |-> kind, text |-> text]

\* the entry Save to History appends (lines 273-277)
NewSave(id, text) == [id |-> id, text |-> text]

\* the cases 0, 1 and 2 of handleToolbarAction: nothing happens for a blank
\* text, or when the browser call fails
ExportCase(kind, ok) ==
  /\ exported' = IF ~Blank(textToExport) /\ ok
                   THEN Export(kind, textToExport)
                   ELSE exported
  /\ lastEvent' = "toolbar:export"
  /\ UNCHANGED <<content, analysis, correctedFrom, isAuthModalOpen,
                 isHistoryOpen, historyItems, localStorage, now>>

\* handleToolbarAction (lines 223-283); ok tells whether the browser call of
\* the case (clipboard, jsPDF, Blob download, localStorage.setItem) succeeds
handleToolbarAction(index, ok) ==
  /\ IF index \in AuthRequired /\ ~isAuthenticated
       THEN /\ isAuthModalOpen' = TRUE
            /\ lastEvent' = "toolbar:signup"
            /\ UNCHANGED <<content, analysis, correctedFrom, exported,
                           isHistoryOpen, historyItems, localStorage, now>>
       ELSE CASE index = 0 -> ExportCase("clipboard", ok)
              [] index = 1 -> ExportCase("pdf", ok)
              [] index = 2 -> ExportCase("txt", ok)
              [] index = 3 ->
                   /\ historyItems' = fetchHistory(localStorage)
                   /\ isHistoryOpen' = ~isHistoryOpen
                   /\ lastEvent' = "toolbar:history"
                   /\ UNCHANGED <<content, analysis, correctedFrom,
                                  isAuthModalOpen, exported, localStorage, now>>
              [] index = 4 ->
                   /\ content' = <<>>
                   /\ analysis' = Null
                   /\ correctedFrom' = NoText
                   /\ lastEvent' = "clear"
                   /\ UNCHANGED <<isAuthModalOpen, exported, isHistoryOpen,
                                  historyItems, localStorage, now>>
              [] index = 5 ->
                   /\ IF (analysis = Null \/ analysis.corrected_text = <<>>)
                         /\ Blank(content)
                        THEN UNCHANGED <<localStorage, now>>
                        ELSE /\ now < MaxSaves
                             /\ now' = now + 1
                             /\ localStorage' =
                                  IF ok THEN Append(localStorage,
                                                    NewSave(now', textToExport))
                                        ELSE localStorage
                   /\ lastEvent' = "toolbar:save"
                   /\ UNCHANGED <<content, analysis, correctedFrom,
                                  isAuthModalOpen, exported, isHistoryOpen,
                                  historyItems>>
  /\ UNCHANGED <<user, isAuthLoading, selectedMode, isStyleMenuOpen>>
  /\ UNCHANGED <<isLoading, paraphraseStyle, request>>
  /\ UNCHANGED diffVars

\* loadFromHistory (lines 285-290), from an entry of the open panel
\* (lines 438-447)
loadFromHistory(item) ==
  /\ isHistoryOpen
  /\ \E k \in 1..Len(historyItems) : historyItems[k] = item
  /\ content' = item.text
  /\ analysis' = Null
  /\ correctedFrom' = NoText
  /\ isHistoryOpen' = FALSE
  /\ lastEvent' = "history:load"
  /\ UNCHANGED <<historyItems, localStorage, now>>
  /\ UNCHANGED <<authVars, selectedMode, isStyleMenuOpen, exported>>
  /\ UNCHANGED <<isLoading, paraphraseStyle, request>>
  /\ UNCHANGED diffVars

\* deleteFromHistory (lines 209-221), from an entry of the open panel
\* (line 451); ok tells whether localStorage.setItem succeeds
deleteFromHistory(id, ok) ==
  /\ isHistoryOpen
  /\ \E k \in 1..Len(historyItems) : historyItems[k].id = id
  /\ IF ok
       THEN /\ localStorage' = WithoutId(localStorage, id)
            /\ historyItems' = fetchHistory(localStorage')
       ELSE UNCHANGED <<localStorage, historyItems>>
  /\ UNCHANGED <<isHistoryOpen, now>>
  /\ UNCHANGED <<authVars, selectedMode, isStyleMenuOpen, exported, correctedFrom>>
  /\ appIdle
  /\ UNCHANGED diffVars

\* handleClickOutside (lines 63-70): a mouse press outside the history
\* panel, outside the style menu, or outside both
handleClickOutside(outsideHistory, outsideStyleMenu) ==
  /\ outsideHistory \/ outsideStyleMenu
  /\ isHistoryOpen \/ isStyleMenuOpen
  /\ isHistoryOpen' = IF outsideHistory THEN FALSE ELSE isHistoryOpen
  /\ isStyleMenuOpen' = IF outsideStyleMenu THEN FALSE ELSE isStyleMenuOpen
  /\ UNCHANGED <<historyItems, localStorage, now>>
  /\ UNCHANGED <<authVars, selectedMode, exported, correctedFrom>>
  /\ appIdle
  /\ UNCHANGED diffVars

\* the Style button (line 510)
ToggleStyleMenu ==
  /\ isStyleMenuOpen' = ~isStyleMenuOpen
  /\ UNCHANGED <<authVars, historyVars, selectedMode, exported, correctedFrom>>
  /\ appIdle
  /\ UNCHANGED diffVars

\* handleModeSelect (lines 96-109)
handleModeSelect(mode) ==
  /\ selectedMode' = mode
  /\ StyleUpdate(styleMap(mode))
  /\ lastEvent' = "mode:select"
  /\ UNCHANGED <<authVars, historyVars, exported, correctedFrom>>
  /\ UNCHANGED <<content, analysis, isLoading, request>>
  /\ UNCHANGED diffVars

\* The editor texts and the worker's answers explored with the toolbar and
\* the sidebar: a correction, and a failed request.
UiContentValues == {<<>>, <<"a">>, <<"b">>}

UiWorkerOutcomes ==
  {w \in WorkerOutcomes :
     \/ w.net = "failed"
     \/ w.ok /\ w.body = ObjectBody(Str(<<"b">>), Undef)}

\* The toolbar with the signup dialog and the history panel, next to the
\* editor and grammar checks that succeed.
ToolbarNext ==
  \/ \E v \in UiContentValues : EditContent(v)
  \/ handleCheckGrammar
  \/ \E w \in {x \in UiWorkerOutcomes : x.ok} : WorkerResponds(w)
  \/ HandlerSettles
  \/ RouteAnswers
  \/ AnalyzeTextSettles
  \/ ResumeCheckGrammar
  \/ OpenAuthModal
  \/ CloseAuthModal
  \/ DemoLogin
  \/ \E valid \in BOOLEAN : handleSignup(valid)
  \/ \E ok \in BOOLEAN : SignupSettles(ok)
  \/ \E index \in ToolbarIndices, ok \in BOOLEAN : handleToolbarAction(index, ok)
  \/ \E k \in 1..Len(historyItems) : loadFromHistory(historyItems[k])
  \/ \E k \in 1..Len(historyItems), ok \in BOOLEAN :
       deleteFromHistory(historyItems[k].id, ok)
  \/ \E h, m \in BOOLEAN : handleClickOutside(h, m)

ToolbarSpec == AppInit /\ [][ToolbarNext]_vars

\* The sidebar next to everything that writes the editor text or the
\* analysis: the editor, both requests, Apply Improvements, the two clear
\* buttons and a load from the history (which takes a login and a save).
SidebarNext ==
  \/ \E v \in UiContentValues : EditContent(v)
  \/ handleCheckGrammar
  \/ handleParaphrase
  \/ ClientFetchFails
  \/ \E w \in UiWorkerOutcomes : WorkerResponds(w)
  \/ HandlerSettles
  \/ RouteAnswers
  \/ AnalyzeTextSettles
  \/ ResumeCheckGrammar
  \/ ResumeParaphrase
  \/ ClearWorkspace
  \/ ApplyImprovements
  \/ DemoLogin
  \/ \E index \in {3, 4, 5} : handleToolbarAction(index, TRUE)
  \/ \E k \in 1..Len(historyItems) : loadFromHistory(historyItems[k])

SidebarSpec == AppInit /\ [][SidebarNext]_vars

\* The styles passed to updateStyleSecurely: every listed one, and another.
StyleAttempts == STYLE_WHITELIST \cup {"unlisted"}

\* The style menu and the mode cards, with every style and every mode.
StyleNext ==
  \/ \E v \in UiContentValues : EditContent(v)
  \/ \E style \in StyleAttempts : updateStyleSecurely(style)
  \/ \E mode \in Modes : handleModeSelect(mode)
  \/ ToggleStyleMenu
  \/ \E h, m \in BOOLEAN : handleClickOutside(h, m)

StyleSpec == AppInit /\ [][StyleNext]_vars

UiTypeOK ==
  /\ AppTypeOK
  /\ user \in {Null, [name |-> "Demo User"], [email |-> "email"]}
  /\ isAuthModalOpen \in BOOLEAN /\ isAuthLoading \in BOOLEAN
  /\ isHistoryOpen \in BOOLEAN /\ isStyleMenuOpen \in BOOLEAN
  /\ now \in 0..MaxSaves
  /\ Len(localStorage) <= now
  /\ \A k \in 1..Len(localStorage) : localStorage[k].id \in 1..now
  /\ \A k \in 1..Len(historyItems) : historyItems[k].id \in 1..now
  /\ \A k \in 1..(Len(historyItems) - 1) : historyItems[k].id > historyItems[k + 1].id
  /\ selectedMode \in Modes
  /\ exported = NoExport \/ exported.kind \in {"clipboard", "pdf", "txt"}
  /\ analysis = Null => correctedFrom = NoText

\* --------------------------------------------------------------------- C21
\* everything a toolbar click can write other than the signup dialog
BesidesDialog ==
  <<content, analysis, isLoading, paraphraseStyle, request, user,
    isAuthLoading, isHistoryOpen, historyItems, localStorage, now,
    selectedMode, isStyleMenuOpen, exported, correctedFrom>>

\* C21: while nobody is logged in, nothing has been exported to a file, the
\* history panel is closed and local storage is unwritten; a click on
\* Download PDF, Download TXT, History or Save to History then opens the
\* signup dialog and changes nothing else; Copy still copies a text that is
\* not blank and Delete Workspace still clears the editor and the analysis.
C21_AuthGate ==
  /\ [](user = Null =>
          /\ exported.kind \in {"none", "clipboard"}
          /\ ~isHistoryOpen
          /\ historyItems = <<>>
          /\ localStorage = <<>> /\ now = 0)
  /\ [][\A index \in ToolbarIndices, ok \in BOOLEAN :
          (user = Null /\ handleToolbarAction(index, ok)) =>
            CASE index \in {1, 2, 3, 5} ->
                   isAuthModalOpen' /\ UNCHANGED BesidesDialog
              [] index = 0 ->
                   /\ (ok /\ ~Blank(textToExport)) =>
                        exported' = Export("clipboard", textToExport)
                   /\ isAuthModalOpen' = isAuthModalOpen
              [] index = 4 ->
                   /\ content' = <<>> /\ analysis' = Null
                   /\ isAuthModalOpen' = isAuthModalOpen]_vars

C21_Witness ==
  /\ user = Null
  /\ lastEvent = "toolbar:signup"
  /\ isAuthModalOpen
  /\ analysis # Null
  /\ exported = Export("clipboard", <<"b">>)

\* --------------------------------------------------------------------- C22
\* the six styles the claim lists
SixStyles ==
  {"normal", "professional", "academic", "friendly", "email", "creative"}

\* C22: paraphraseStyle is always one of the six listed styles, whatever
\* modes are selected and styles are chosen; a call of updateStyleSecurely
\* with any other value ends with paraphraseStyle = 'normal'.
C22_StyleWhitelist ==
  /\ [](paraphraseStyle \in SixStyles)
  /\ [][\A style \in StyleAttempts \ SixStyles :
          updateStyleSecurely(style) => paraphraseStyle' = "normal"]_vars

C22_Witness ==
  /\ selectedMode = "Academic Essay"
  /\ lastEvent = "style:blocked"
  /\ paraphraseStyle = "normal"

\* --------------------------------------------------------------------- C23
\* Sidebar.tsx lines 108-130: the sidebar calls getDiffSegments when it is
\* not loading, has an analysis and its originalText is not empty
SidebarShowsDiff == ~isLoading /\ analysis # Null /\ content # <<>>

\* the arguments of that call (part_000 line 479, Sidebar.tsx line 129)
SidebarDiff == [original |-> content, corrected |-> analysis.corrected_text]

\* C23: whenever the sidebar displays a diff with a corrected text, the
\* original side of the diff is the text that was submitted to produce that
\* corrected text.
C23_DiffOfSubmitted ==
  (SidebarShowsDiff /\ SidebarDiff.corrected # <<>>) =>
    SidebarDiff.original = correctedFrom
====
